---- MODULE Spec2Model ----
(***************************************************************************)
(* Document Reader API: the request pipeline of src/app.py (the /ocr,      *)
(* /ocr-detailed and /extract handlers) over src/document_processor.py     *)
(* and src/config.py.                                                      *)
(*                                                                         *)
(* Strings are sequences of one-character strings where their content is   *)
(* inspected (file names, prompts, model answers) and sequences of tokens  *)
(* for the Authorization header.  An error message is the set of the       *)
(* signatures the handlers search it for, with the prefix a wrapper put    *)
(* in front of it.                                                         *)
(***************************************************************************)
EXTENDS Integers, Sequences, FiniteSets, TLC

(* ---------------------------------------------------------------- bounds *)
MaxRequests == 2
MaxPad == 1
MaxTextLen == 1
MaxAiLen == 2
MaxSignatures == 1
MaxCalls == 2
MaxInFlight == 2
MaxSessions == 3

(* ----------------------------------------------------- program constants *)
MAX_FILE_SIZE == 52428800
MinPromptLen == 10

(* ------------------------------------------------------------- strings   *)
RECURSIVE Repeat(_, _)
Repeat(c, n) == IF n = 0 THEN <<>> ELSE <<c>> \o Repeat(c, n - 1)

SeqsUpTo(S, n) == UNION {[1..k -> S] : k \in 0..n}

EndsWith(s, suffix) ==
    /\ Len(s) >= Len(suffix)
    /\ SubSeq(s, Len(s) - Len(suffix) + 1, Len(s)) = suffix

LowerChar(c) ==
    CASE c = "P" -> "p"
      [] c = "D" -> "d"
      [] c = "F" -> "f"
      [] OTHER   -> c

Lower(s) == [i \in 1..Len(s) |-> LowerChar(s[i])]

IsSpace(c) == c = " "

RECURSIVE LStrip(_)
LStrip(s) == IF s # <<>> /\ IsSpace(Head(s)) THEN LStrip(Tail(s)) ELSE s

RECURSIVE RStrip(_)
RStrip(s) ==
    IF s # <<>> /\ IsSpace(s[Len(s)]) THEN RStrip(SubSeq(s, 1, Len(s) - 1)) ELSE s

Strip(s) == RStrip(LStrip(s))

DotPdf == <<".", "p", "d", "f">>

(* config.SUPPORTED_EXTENSIONS *)
SUPPORTED_EXTENSIONS == {DotPdf}

(* FileHandler.validate_file_type: filename.lower().endswith('.pdf') *)
validate_file_type(name) == EndsWith(Lower(name), DotPdf)

(* The test the three handlers apply: file.filename.endswith('.pdf') *)
EndpointAcceptsAnyName(name) == TRUE
EndpointAcceptsName(name) == EndsWith(name, DotPdf)

(* The extension of a file name: from its last dot on, empty without a dot *)
RECURSIVE Extension(_)
Extension(name) ==
    IF name = <<>> THEN <<>>
    ELSE IF \E i \in 2..Len(name) : name[i] = "." THEN Extension(Tail(name))
    ELSE IF Head(name) = "." THEN name
    ELSE <<>>

(* ------------------------------------------------------------- inputs    *)
Endpoints == {"ocr", "ocr-detailed", "extract"}

Stems == {<<>>, <<"a">>}
Suffixes == {<<>>, DotPdf, <<".", "P", "D", "F">>, <<".", "P", "d", "f">>,
             <<".", "t", "x", "t">>, <<"p", "d", "f">>,
             <<".", "p", "d", "f", ".", "t">>}
Filenames == {st \o su : st \in Stems, su \in Suffixes}

CoreLens == {0, MinPromptLen - 1, MinPromptLen}
Prompts == {Repeat(" ", l) \o Repeat("x", c) \o Repeat(" ", t) :
               l \in 0..MaxPad, c \in CoreLens, t \in 0..MaxPad}
         \cup {Repeat("x", MinPromptLen - 2 - k) \o <<" ">> \o Repeat("x", 1 + k) :
               k \in 0..MaxPad}

NoSize == -1
ContentLens == {0, MAX_FILE_SIZE, MAX_FILE_SIZE + 1}

Bearer == "Bearer "
API_KEY == "key"
Headers == {<<>>, <<Bearer, API_KEY>>, <<Bearer, "wrong">>, <<API_KEY>>,
            <<Bearer, Bearer, API_KEY>>}

Names == 1..(MaxRequests + 1)
NoPath == 0

Signatures == {"404", "model", "401", "authentication", "400", "invalid",
               "timeout", "document-reader", "memory", "resource"}
ErrorTexts == {k \in SUBSET Signatures : Cardinality(k) <= MaxSignatures}

OcrTexts == SeqsUpTo({"t"}, MaxTextLen)
Confidences == {0, 95}
AiTexts == SeqsUpTo({" ", "X"}, MaxAiLen)

(* ------------------------------------------------------------- state     *)
VARIABLES
    pc,              \* position of the request being served
    served,          \* number of requests received so far
    endpoint,        \* route of the request
    authorization,   \* its Authorization header
    filename,        \* file.filename
    prompt,          \* the prompt form field (/extract)
    size,            \* file.size, NoSize when the upload carries none
    content_len,     \* number of bytes file.read() returns
    storage,         \* names of the files in the temporary directory
    created,         \* names of the files this request created
    temp_file_path,  \* the handler's local variable
    text,            \* the handler's local variable: what extract_text_from_pdf returned
    result,          \* the handler's local variable: what extract_structured_data returned
    ocr_calls,       \* arguments of the OCR engine calls of this request
    ai_calls,        \* arguments of the messages.create calls of this request
    failed,          \* the stage whose failure ended the request
    raised,          \* the exception the handler's except clause caught
    response,        \* the HTTP response
    \* FileHandler.cleanup_temp_file, called on its own
    cl_pc,           \* position inside cleanup_temp_file
    file_path,       \* its argument
    disk,            \* the paths that exist
    undeletable,     \* the paths os.unlink is not permitted to remove
    cleanups,        \* one record per call: what it found, removed and caught
    escaped,         \* whether an exception left cleanup_temp_file
    \* the try block of the handlers, for requests served concurrently
    c_pc,            \* position of each request
    c_path,          \* temp_file.name of each request
    owner,           \* for each name of the temporary directory, the request whose file it is
    deleted,         \* the os.unlink calls that removed a file: who called, whose file
    \* src/admin.py
    admin_sessions,  \* the module's set of session ids
    issued,          \* the ids a login with the right password has set as cookie
    logged_out,      \* the ids a logout has been asked to end
    admin_response   \* the last answer of a route behind verify_admin_session

pipeline == <<pc, served, endpoint, authorization, filename, prompt, size, content_len,
              storage, created, temp_file_path, text, result, ocr_calls, ai_calls,
              failed, raised, response>>

cleanup == <<cl_pc, file_path, disk, undeletable, cleanups, escaped>>

concurrent == <<c_pc, c_path, owner, deleted>>

admin == <<admin_sessions, issued, logged_out, admin_response>>

(* the variables the request pipeline leaves alone *)
aside == <<cleanup, concurrent, admin>>

notCleanup == <<pipeline, concurrent, admin>>
notConcurrent == <<pipeline, cleanup, admin>>
notAdmin == <<pipeline, cleanup, concurrent>>

vars == <<pipeline, aside>>

inputs == <<endpoint, authorization, filename, prompt, size, content_len>>

NoText == [none |-> TRUE]
NoResponse == [status |-> 0, body |-> [pending |-> TRUE]]
NoException == [none |-> TRUE]

(* str(e) of an exception: the wrapper's prefix and the signatures in the text *)
Message(prefix, signatures) == [prefix |-> prefix, signatures |-> signatures]
NoArg == Message("", {})

(* raise HTTPException(status_code, detail) *)
HTTPException(status_code, detail, arg) ==
    [status |-> status_code, body |-> [detail |-> [text |-> detail, arg |-> arg]]]

JSON(body) == [status |-> 200, body |-> body]

PipelineInit ==
    /\ pc = "idle"
    /\ served = 0
    /\ endpoint = "ocr"
    /\ authorization = <<>>
    /\ filename = <<>>
    /\ prompt = <<>>
    /\ size = NoSize
    /\ content_len = 0
    /\ storage = {}
    /\ created = {}
    /\ temp_file_path = NoPath
    /\ text = NoText
    /\ result = NoText
    /\ ocr_calls = <<>>
    /\ ai_calls = <<>>
    /\ failed = "none"
    /\ raised = NoException
    /\ response = NoResponse

(* cleanup_temp_file is not being called: no handler calls it *)
CleanupOff ==
    /\ cl_pc = "off"
    /\ file_path = NoPath
    /\ disk = {}
    /\ undeletable = {}
    /\ cleanups = <<>>
    /\ escaped = FALSE

Requests == 1..MaxInFlight
Absent == 0
Earlier == MaxInFlight + 1

(* no concurrent requests are being followed *)
ConcurrentOff ==
    /\ c_pc = [r \in Requests |-> "off"]
    /\ c_path = [r \in Requests |-> NoPath]
    /\ owner = [n \in Names |-> Absent]
    /\ deleted = {}

SessionIds == 1..MaxSessions
NoCookie == 0
NoAdminResponse == [route |-> "none", cookie |-> NoCookie, status |-> 0]

(* admin_sessions = set() *)
AdminInit ==
    /\ admin_sessions = {}
    /\ issued = {}
    /\ logged_out = {}
    /\ admin_response = NoAdminResponse

Init == PipelineInit /\ CleanupOff /\ ConcurrentOff /\ AdminInit

(* A request arrives; the previous one has been answered *)
Receive ==
    /\ UNCHANGED aside
    /\ pc = "idle"
    /\ served < MaxRequests
    /\ served' = served + 1
    /\ endpoint' \in Endpoints
    /\ authorization' \in Headers
    /\ filename' \in Filenames
    /\ prompt' \in (IF endpoint' = "extract" THEN Prompts ELSE {<<>>})
    /\ content_len' \in ContentLens
    /\ size' \in {NoSize, content_len'}
    /\ created' = {}
    /\ temp_file_path' = NoPath
    /\ text' = NoText
    /\ result' = NoText
    /\ ocr_calls' = <<>>
    /\ ai_calls' = <<>>
    /\ failed' = "none"
    /\ raised' = NoException
    /\ response' = NoResponse
    /\ pc' = "verify_api_key"
    /\ UNCHANGED storage

(* authorization.replace("Bearer ", "") *)
ReplaceBearer(header) == SelectSeq(header, LAMBDA tok : tok # Bearer)

(* verify_api_key: the response it raises, NoResponse when it returns *)
verify_api_key(header) ==
    IF header = <<>> \/ Head(header) # Bearer
    THEN HTTPException(401, "Invalid authorization header", NoArg)
    ELSE IF ReplaceBearer(header) # <<API_KEY>>
    THEN HTTPException(401, "Invalid API key", NoArg)
    ELSE NoResponse

VerifyApiKey ==
    /\ UNCHANGED aside
    /\ pc = "verify_api_key"
    /\ IF verify_api_key(authorization) = NoResponse
       THEN /\ pc' = "validate"
            /\ UNCHANGED <<response, failed>>
       ELSE /\ pc' = "done"
            /\ response' = verify_api_key(authorization)
            /\ failed' = "auth"
    /\ UNCHANGED raised
    /\ UNCHANGED <<served, inputs, storage, created, temp_file_path, text, result,
                   ocr_calls, ai_calls>>

(* not prompt or len(prompt.strip()) < 10 *)
PromptTooShortUnstripped(p) == p = <<>> \/ Len(p) < MinPromptLen
PromptTooShort(p) == p = <<>> \/ Len(Strip(p)) < MinPromptLen

(* file.size and file.size > Config.MAX_FILE_SIZE *)
SizeExceeds(sz) == sz # NoSize /\ sz # 0 /\ sz > MAX_FILE_SIZE

(* raise HTTPException(status_code=400, detail=f"File size exceeds ...") *)
SizeRejectedEntityTooLarge ==
    HTTPException(413, "File size exceeds maximum limit of {MAX_FILE_SIZE} bytes", NoArg)
SizeRejected ==
    HTTPException(400, "File size exceeds maximum limit of {MAX_FILE_SIZE} bytes", NoArg)

(* The checks before the try block, in the handler's order: the rejection  *)
(* raised as <<stage, response>>, <<"none", NoResponse>> when all pass     *)
ValidationOf(ep, name, p, sz) ==
    IF ~EndpointAcceptsName(name)
    THEN <<"file_type", HTTPException(400, "Only PDF files are supported", NoArg)>>
    ELSE IF ep = "extract" /\ PromptTooShort(p)
    THEN <<"prompt", HTTPException(400, "Prompt must be at least 10 characters", NoArg)>>
    ELSE IF SizeExceeds(sz)
    THEN <<"size", SizeRejected>>
    ELSE <<"none", NoResponse>>

Validate ==
    /\ UNCHANGED aside
    /\ pc = "validate"
    /\ LET v == ValidationOf(endpoint, filename, prompt, size) IN
       IF v[1] = "none"
       THEN /\ pc' = "materialize"
            /\ UNCHANGED <<response, failed>>
       ELSE /\ pc' = "done"
            /\ failed' = v[1]
            /\ response' = v[2]
    /\ UNCHANGED raised
    /\ UNCHANGED <<served, inputs, storage, created, temp_file_path, text, result,
                   ocr_calls, ai_calls>>

(* ------------------------------------------------------ except clauses   *)
Exception(type, msg) == [type |-> type, msg |-> msg]
Has(e, signature) == signature \in e.msg.signatures

(* ocr_endpoint and ocr_detailed_endpoint: except FileNotFoundError / Exception *)
OcrExcept(e) ==
    IF e.type = "FileNotFoundError"
    THEN HTTPException(400, "Uploaded file could not be processed", NoArg)
    ELSE IF Has(e, "document-reader")
    THEN HTTPException(500, "OCR processing failed. The PDF may be corrupted or unsupported.", NoArg)
    ELSE IF Has(e, "memory") \/ Has(e, "resource")
    THEN HTTPException(500, "Insufficient resources to process document. Try a smaller file.", NoArg)
    ELSE HTTPException(500, "OCR processing failed: {error_message}", e.msg)

(* extract_endpoint: except FileNotFoundError / Exception *)
ExtractExcept(e) ==
    IF e.type = "FileNotFoundError"
    THEN HTTPException(400, "Uploaded file could not be processed", NoArg)
    ELSE IF Has(e, "404") /\ Has(e, "model")
    THEN HTTPException(500, "AI model not available. Please contact support.", NoArg)
    ELSE IF Has(e, "401") \/ Has(e, "authentication")
    THEN HTTPException(500, "AI service authentication failed. Check API configuration.", NoArg)
    ELSE IF Has(e, "400") \/ Has(e, "invalid")
    THEN HTTPException(500, "Invalid request to AI service. Check your prompt and try again.", NoArg)
    ELSE IF Has(e, "timeout")
    THEN HTTPException(500, "AI processing timed out. Try with a shorter document or simpler prompt.", NoArg)
    ELSE IF Has(e, "document-reader")
    THEN HTTPException(500, "OCR processing failed. The PDF may be corrupted or unsupported.", NoArg)
    ELSE IF Has(e, "memory") \/ Has(e, "resource")
    THEN HTTPException(500, "Insufficient resources. Try a smaller file or simpler prompt.", NoArg)
    ELSE HTTPException(500, "Processing failed: {error_message}", e.msg)

Except(ep, e) == IF ep = "extract" THEN ExtractExcept(e) ELSE OcrExcept(e)

(* The request ends in the handler's except clause *)
Raise(stage, e) ==
    /\ pc' = "done"
    /\ failed' = stage
    /\ raised' = e
    /\ response' = Except(endpoint, e)

(* ------------------------------------------------------- the try block   *)
(* with tempfile.NamedTemporaryFile(delete=False, suffix='.pdf') as temp_file: *)
(*     content = await file.read(); temp_file.write(content)                    *)
(*     temp_file_path = temp_file.name                                          *)
(* the names NamedTemporaryFile may return: it opens with O_EXCL, so none  *)
(* that exists                                                             *)
AnyNames(taken) == Names
FreshNames(taken) == Names \ taken

MaterializeOk ==
    /\ UNCHANGED aside
    /\ pc = "materialize"
    /\ \E name \in FreshNames(storage) :
          /\ storage' = storage \cup {name}
          /\ created' = created \cup {name}
          /\ temp_file_path' = name
    /\ pc' = "recognize"
    /\ UNCHANGED <<served, inputs, text, result, ocr_calls, ai_calls, failed, raised, response>>

(* No usable temporary directory: NamedTemporaryFile raises FileNotFoundError *)
MaterializeNoDirectory ==
    /\ UNCHANGED aside
    /\ pc = "materialize"
    /\ \E k \in ErrorTexts : Raise("storage", Exception("FileNotFoundError", Message("", k)))
    /\ UNCHANGED <<served, inputs, storage, created, temp_file_path, text, result,
                   ocr_calls, ai_calls>>

(* Any other OSError: raised by the creation (no file) or by the write    *)
(* (the file exists, delete=False, and temp_file_path is not assigned)     *)
MaterializeOSError ==
    /\ UNCHANGED aside
    /\ pc = "materialize"
    /\ \E k \in ErrorTexts : Raise("storage", Exception("OSError", Message("", k)))
    /\ \/ UNCHANGED <<storage, created>>
       \/ \E name \in FreshNames(storage) :
             /\ storage' = storage \cup {name}
             /\ created' = created \cup {name}
    /\ UNCHANGED <<served, inputs, temp_file_path, text, result, ocr_calls, ai_calls>>

(* DocumentProcessor.extract_text_from_pdf, the engine returning *)
OcrResult(t, c) == [text |-> t, confidence |-> c, text_length |-> Len(t)]

(* the statement following a successful extract_text_from_pdf *)
AfterOcrAlwaysExtract(ep) == "extract"
AfterOcr(ep) == IF ep = "extract" THEN "extract" ELSE "finish"

RecognizeOk ==
    /\ UNCHANGED aside
    /\ pc = "recognize"
    /\ endpoint \in {"ocr", "extract"}
    /\ ocr_calls' = Append(ocr_calls, temp_file_path)
    /\ \E t \in OcrTexts, c \in Confidences : text' = OcrResult(t, c)
    /\ pc' = AfterOcr(endpoint)
    /\ UNCHANGED <<served, inputs, storage, created, temp_file_path, result, ai_calls,
                   failed, raised, response>>

(* the statement following a failed extract_text_from_pdf: the except clause *)
OcrRaisedRetry(e) ==
    /\ pc' = "recognize"
    /\ UNCHANGED <<failed, raised, response>>
OcrRaisedContinue(e) ==
    /\ pc' = "extract"
    /\ UNCHANGED <<failed, raised, response>>
OcrRaised(e) == Raise("ocr", e)

(* DocumentProcessor.extract_text_from_pdf, the engine raising:            *)
(* raise Exception(f"OCR processing failed: {str(e)}")                     *)
RecognizeFail ==
    /\ UNCHANGED aside
    /\ pc = "recognize"
    /\ endpoint \in {"ocr", "extract"}
    /\ ocr_calls' = Append(ocr_calls, temp_file_path)
    /\ \E k \in ErrorTexts :
          OcrRaised(Exception("Exception", Message("OCR processing failed: ", k)))
    /\ UNCHANGED <<served, inputs, storage, created, temp_file_path, text, result,
                   ai_calls>>

(* document_processor.extract_text_with_layout: DocumentProcessor defines  *)
(* no such method, the attribute lookup raises AttributeError              *)
RecognizeWithLayout ==
    /\ UNCHANGED aside
    /\ pc = "recognize"
    /\ endpoint = "ocr-detailed"
    /\ Raise("internal", Exception("AttributeError", Message("", {})))
    /\ UNCHANGED <<served, inputs, storage, created, temp_file_path, text, result,
                   ocr_calls, ai_calls>>

(* f"{text}" of the value the handler passes: a dict is formatted as its repr *)
FormatDict(d) == [repr |-> d]

(* final_prompt = f"{prompt}\n\n--- Begin Document ---\n{text}\n--- End Document ---" *)
final_prompt(txt, p) ==
    <<p, "\n\n--- Begin Document ---\n", txt, "\n--- End Document ---">>

(* return {"extracted_data": response.content[0].text.strip()} *)
ExtractedData(answer) == [extracted_data |-> Strip(answer)]

(* One messages.create call: the prompt sent and the answers returned (none *)
(* when the call raised)                                                   *)
AiCall(request, returned) == [request |-> request, returned |-> returned]

(* DocumentProcessor.extract_structured_data(text, prompt), the service answering *)
ExtractOk ==
    /\ UNCHANGED aside
    /\ pc = "extract"
    /\ \E answer \in AiTexts :
          /\ ai_calls' = Append(ai_calls,
                                AiCall(final_prompt(FormatDict(text), prompt), <<answer>>))
          /\ result' = ExtractedData(answer)
    /\ pc' = "finish"
    /\ UNCHANGED <<served, inputs, storage, created, temp_file_path, text, ocr_calls,
                   failed, raised, response>>

(* ... the service raising: raise Exception(f"AI extraction failed: {str(e)}") *)
ExtractFail ==
    /\ UNCHANGED aside
    /\ pc = "extract"
    /\ ai_calls' = Append(ai_calls, AiCall(final_prompt(FormatDict(text), prompt), <<>>))
    /\ \E k \in ErrorTexts :
          Raise("ai", Exception("Exception", Message("AI extraction failed: ", k)))
    /\ UNCHANGED <<served, inputs, storage, created, temp_file_path, text, result,
                   ocr_calls>>

(* len(text) of the dict extract_text_from_pdf returned: its number of keys *)
LenDict(d) == Cardinality(DOMAIN d)

(* the body each handler returns *)
ReturnValue(ep) ==
    IF ep = "extract"
    THEN [success |-> TRUE, extracted_data |-> result.extracted_data]
    ELSE [success |-> TRUE, text |-> text, text_length |-> LenDict(text)]

(* os.unlink(temp_file_path); return {...} *)
Finish ==
    /\ UNCHANGED aside
    /\ pc = "finish"
    /\ storage' = storage \ {temp_file_path}
    /\ response' = JSON(ReturnValue(endpoint))
    /\ pc' = "done"
    /\ UNCHANGED <<served, inputs, created, temp_file_path, text, result, ocr_calls,
                   ai_calls, failed, raised>>

(* The response is sent and the handler's frame is discarded; only the    *)
(* temporary directory outlives the request                                *)
Respond ==
    /\ UNCHANGED aside
    /\ pc = "done"
    /\ pc' = "idle"
    /\ endpoint' = "ocr"
    /\ authorization' = <<>>
    /\ filename' = <<>>
    /\ prompt' = <<>>
    /\ size' = NoSize
    /\ content_len' = 0
    /\ created' = {}
    /\ temp_file_path' = NoPath
    /\ text' = NoText
    /\ result' = NoText
    /\ ocr_calls' = <<>>
    /\ ai_calls' = <<>>
    /\ failed' = "none"
    /\ raised' = NoException
    /\ response' = NoResponse
    /\ UNCHANGED <<served, storage>>

Next ==
    \/ Receive
    \/ VerifyApiKey
    \/ Validate
    \/ MaterializeOk
    \/ MaterializeNoDirectory
    \/ MaterializeOSError
    \/ RecognizeOk
    \/ RecognizeFail
    \/ RecognizeWithLayout
    \/ ExtractOk
    \/ ExtractFail
    \/ Finish
    \/ Respond

Spec == Init /\ [][Next]_vars

(* ------------------------------------- FileHandler.cleanup_temp_file     *)
(* The function runs against a file system other processes also delete     *)
(* from; whether os.unlink may remove a path is a fixed property of it.    *)
CleanupInit ==
    /\ PipelineInit
    /\ ConcurrentOff
    /\ AdminInit
    /\ cl_pc = "call"
    /\ file_path \in Names
    /\ disk \in SUBSET Names
    /\ undeletable \in SUBSET Names
    /\ cleanups = <<>>
    /\ escaped = FALSE

Cleanup(present, removed, caught) ==
    [present |-> present, removed |-> removed, caught |-> caught]

(* the current call's record, changed in field f *)
Noted(f, v) == [cleanups EXCEPT ![Len(cleanups)][f] = v]

(* cleanup_temp_file(file_path) is called; try: *)
CleanupCall ==
    /\ cl_pc \in {"call", "returned"}
    /\ Len(cleanups) < MaxCalls
    /\ cleanups' = Append(cleanups, Cleanup(file_path \in disk, {}, "none"))
    /\ cl_pc' = "exists"
    /\ UNCHANGED <<notCleanup, file_path, disk, undeletable, escaped>>

(* if os.path.exists(file_path): *)
CleanupExists ==
    /\ cl_pc = "exists"
    /\ cl_pc' = (IF file_path \in disk THEN "unlink" ELSE "returned")
    /\ UNCHANGED <<notCleanup, file_path, disk, undeletable, cleanups, escaped>>

(* os.unlink(path): the exception it raises, "none" when it removes the path *)
unlink(path) ==
    IF path \notin disk THEN "FileNotFoundError"
    ELSE IF path \in undeletable THEN "PermissionError"
    ELSE "none"

(* except Exception: pass *)
CleanupExceptNone(e) == FALSE
CleanupExcept(e) == e \in {"FileNotFoundError", "PermissionError"}

(* os.unlink(file_path), and the except clause *)
CleanupUnlink ==
    /\ cl_pc = "unlink"
    /\ LET e == unlink(file_path) IN
       IF e = "none"
       THEN /\ disk' = disk \ {file_path}
            /\ cleanups' = Noted("removed", {file_path})
            /\ UNCHANGED escaped
       ELSE /\ escaped' = (escaped \/ ~CleanupExcept(e))
            /\ cleanups' = Noted("caught", e)
            /\ UNCHANGED disk
    /\ cl_pc' = "returned"
    /\ UNCHANGED <<notCleanup, file_path, undeletable>>

(* Another process removes a file while cleanup_temp_file runs *)
OtherProcessDeletes ==
    /\ cl_pc # "off"
    /\ \E path \in disk : disk' = disk \ {path}
    /\ UNCHANGED <<notCleanup, cl_pc, file_path, undeletable, cleanups, escaped>>

CleanupNext ==
    \/ CleanupCall
    \/ CleanupExists
    \/ CleanupUnlink
    \/ OtherProcessDeletes

SpecCleanup == CleanupInit /\ [][CleanupNext]_vars

(* ------------------------------------------ requests served concurrently *)
(* The try block of a handler, once per request, the steps of different    *)
(* requests interleaved in any order.  The temporary directory may hold    *)
(* files earlier requests left behind.                                     *)
Existing == {n \in Names : owner[n] # Absent}

ConcurrentInit ==
    /\ PipelineInit
    /\ CleanupOff
    /\ AdminInit
    /\ c_pc = [r \in Requests |-> "start"]
    /\ c_path = [r \in Requests |-> NoPath]
    /\ owner \in [Names -> {Absent, Earlier}]
    /\ Cardinality(Names \ Existing) >= MaxInFlight
    /\ deleted = {}

(* The request is rejected before the try block (401, 400) *)
ConcReject(r) ==
    /\ c_pc[r] = "start"
    /\ c_pc' = [c_pc EXCEPT ![r] = "done"]
    /\ UNCHANGED <<notConcurrent, c_path, owner, deleted>>

(* with tempfile.NamedTemporaryFile(delete=False, suffix='.pdf') as temp_file: *)
ConcCreate(r) ==
    /\ c_pc[r] = "start"
    /\ \E name \in FreshNames(Existing) :
          /\ owner' = [owner EXCEPT ![name] = r]
          /\ c_path' = [c_path EXCEPT ![r] = name]
    /\ c_pc' = [c_pc EXCEPT ![r] = "read"]
    /\ UNCHANGED <<notConcurrent, deleted>>

(* content = await file.read(); temp_file.write(content);                   *)
(* temp_file_path = temp_file.name -- or the write raises                   *)
ConcWrite(r) ==
    /\ c_pc[r] = "read"
    /\ \E next \in {"recognize", "done"} : c_pc' = [c_pc EXCEPT ![r] = next]
    /\ UNCHANGED <<notConcurrent, c_path, owner, deleted>>

(* document_processor.extract_text_from_pdf(temp_file_path): it returns,   *)
(* on /extract or on /ocr, or it raises and the except clause answers      *)
ConcRecognize(r) ==
    /\ c_pc[r] = "recognize"
    /\ \E next \in {"extract", "finish", "done"} : c_pc' = [c_pc EXCEPT ![r] = next]
    /\ UNCHANGED <<notConcurrent, c_path, owner, deleted>>

(* document_processor.extract_structured_data(text, prompt) *)
ConcExtract(r) ==
    /\ c_pc[r] = "extract"
    /\ \E next \in {"finish", "done"} : c_pc' = [c_pc EXCEPT ![r] = next]
    /\ UNCHANGED <<notConcurrent, c_path, owner, deleted>>

(* os.unlink(temp_file_path); return -- FileNotFoundError when the path is gone *)
ConcUnlink(r) ==
    /\ c_pc[r] = "finish"
    /\ IF owner[c_path[r]] = Absent
       THEN UNCHANGED <<owner, deleted>>
       ELSE /\ deleted' = deleted \cup {[by |-> r, whose |-> owner[c_path[r]]]}
            /\ owner' = [owner EXCEPT ![c_path[r]] = Absent]
    /\ c_pc' = [c_pc EXCEPT ![r] = "done"]
    /\ UNCHANGED <<notConcurrent, c_path>>

ConcurrentNext ==
    \E r \in Requests :
        \/ ConcReject(r)
        \/ ConcCreate(r)
        \/ ConcWrite(r)
        \/ ConcRecognize(r)
        \/ ConcExtract(r)
        \/ ConcUnlink(r)

SpecConcurrent == ConcurrentInit /\ [][ConcurrentNext]_vars

(* ------------------------------------------------------- src/admin.py   *)
ADMIN_PASSWORD == "secret"
Passwords == {ADMIN_PASSWORD, "wrong", ""}
Cookies == SessionIds \cup {NoCookie}

AdminResponse(route, cookie, status) ==
    [route |-> route, cookie |-> cookie, status |-> status]

(* if password == config.ADMIN_PASSWORD *)
PasswordAlwaysOk(password) == TRUE
PasswordOk(password) == password = ADMIN_PASSWORD

(* admin_login: create_session_id() draws an id no session has had *)
AdminLogin ==
    \E password \in Passwords, session_id \in SessionIds \ (admin_sessions \cup issued) :
        /\ IF PasswordOk(password)
           THEN /\ admin_sessions' = admin_sessions \cup {session_id}
                /\ admin_response' = AdminResponse("login", session_id, 302)
           ELSE /\ admin_response' = AdminResponse("login", NoCookie, 200)
                /\ UNCHANGED admin_sessions
        /\ issued' = (IF password = ADMIN_PASSWORD /\ session_id \in admin_sessions'
                      THEN issued \cup {session_id} ELSE issued)
        /\ UNCHANGED <<notAdmin, logged_out>>

(* admin_logout, the request carrying the cookie admin_session *)
AdminLogout ==
    \E session_id \in Cookies :
        /\ admin_sessions' = (IF session_id # NoCookie /\ session_id \in admin_sessions
                              THEN admin_sessions \ {session_id}
                              ELSE admin_sessions)
        /\ logged_out' = logged_out \cup ({session_id} \cap issued)
        /\ admin_response' = AdminResponse("logout", NoCookie, 302)
        /\ UNCHANGED <<notAdmin, issued>>

(* verify_admin_session: the status it raises, 200 when it returns True *)
verify_admin_session(session_id) ==
    IF session_id = NoCookie \/ session_id \notin admin_sessions THEN 401 ELSE 200

(* A page behind Depends(verify_admin_session) is requested *)
AdminPage ==
    \E session_id \in Cookies :
        /\ admin_response' =
              AdminResponse("page", session_id, verify_admin_session(session_id))
        /\ UNCHANGED <<notAdmin, admin_sessions, issued, logged_out>>

AdminNext ==
    \/ AdminLogin
    \/ AdminLogout
    \/ AdminPage

AdminSpecInit == PipelineInit /\ CleanupOff /\ ConcurrentOff /\ AdminInit

SpecAdmin == AdminSpecInit /\ [][AdminNext]_vars

(* ============================================================== claims   *)
Answered == pc = "done"
Succeeded == Answered /\ response.status = 200
Keys(body) == DOMAIN body
OcrReturned == text # NoText

(* the extension of the name is in the supported set, compared without case *)
SupportedExtension(name) == Lower(Extension(name)) \in SUPPORTED_EXTENSIONS

(* C1: when a request that created a transient file is answered, on any    *)
(* exit path, that file is absent from storage.                            *)
C1_TransientFileAbsentOnReturn ==
    (Answered /\ temp_file_path # NoPath) => temp_file_path \notin storage

(* C2: a request whose file name extension is not a supported one ends in  *)
(* a validation failure; it creates no transient file and invokes neither  *)
(* the OCR adapter nor the AI adapter.                                     *)
C2_UnsupportedExtensionRejected ==
    (pc # "idle" /\ ~SupportedExtension(filename)) =>
        /\ created = {}
        /\ temp_file_path = NoPath
        /\ ocr_calls = <<>>
        /\ ai_calls = <<>>
        /\ pc \in {"verify_api_key", "validate", "done"}
        /\ (Answered /\ failed # "auth") =>
              (failed = "file_type" /\ response.status = 400)

C2_Witness ==
    /\ Answered
    /\ failed = "file_type"
    /\ Extension(filename) = <<".", "t", "x", "t">>

(* C3: an /extract request whose instruction has fewer than MinPromptLen   *)
(* characters after trimming, the empty and the blank instruction included,*)
(* fails validation before the OCR adapter is invoked and before a         *)
(* transient file is created.                                              *)
C3_ShortInstructionRejected ==
    (pc # "idle" /\ endpoint = "extract" /\ Len(Strip(prompt)) < MinPromptLen) =>
        /\ created = {}
        /\ ocr_calls = <<>>
        /\ pc \in {"verify_api_key", "validate", "done"}
        /\ (Answered /\ failed # "auth") =>
              (failed \in {"file_type", "prompt"} /\ response.status = 400)

C3_Witness ==
    /\ Answered
    /\ failed = "prompt"
    /\ Len(prompt) >= MinPromptLen
    /\ Len(Strip(prompt)) < MinPromptLen

(* C4: a request whose document exceeds MAX_FILE_SIZE fails with the size  *)
(* error before any call to the OCR or the AI adapter, whatever size the   *)
(* upload declares.                                                        *)
C4_OversizeRejectedBeforeAdapters ==
    (/\ content_len > MAX_FILE_SIZE
     /\ pc \notin {"idle", "verify_api_key", "validate"}
     /\ failed \notin {"auth", "file_type", "prompt"}) =>
        /\ failed = "size"
        /\ ocr_calls = <<>>
        /\ ai_calls = <<>>

(* C5: on an OCR-only endpoint, once OCR has succeeded, the AI adapter is  *)
(* never invoked and the outcome holds OCR fields only.                    *)
OcrFields == {"text", "confidence_score", "text_length"}

C5_OcrOnlyNoAi ==
    (endpoint \in {"ocr", "ocr-detailed"} /\ OcrReturned) =>
        /\ ai_calls = <<>>
        /\ pc \in {"finish", "done"}
        /\ Answered => (Succeeded /\ Keys(response.body) \ {"success"} \subseteq OcrFields)

C5_Witness ==
    /\ Succeeded
    /\ endpoint = "ocr"
    /\ OcrReturned
    /\ "text" \in Keys(response.body)

(* C6: when OCR and AI extraction both succeed, the outcome of /extract    *)
(* holds the OCR confidence score and, as extracted_data, exactly the text *)
(* the AI adapter returned.                                                *)
C6_ExtractOutcomeVerbatim ==
    (Succeeded /\ endpoint = "extract") =>
        /\ "confidence_score" \in Keys(response.body)
        /\ <<response.body.extracted_data>> = ai_calls[Len(ai_calls)].returned

(* C7: the file-type validation of a request accepts exactly the file      *)
(* names whose extension is .pdf in any letter case.                       *)
C7_TypeValidationCaseInsensitive ==
    (pc \notin {"idle", "verify_api_key", "validate"} /\ failed # "auth") =>
        (failed # "file_type" <=> SupportedExtension(filename))

(* C8: a failed request is answered with the status of its error kind: 400 *)
(* for a validation failure, 413 for an oversize document, 500 for an OCR, *)
(* AI or storage failure.                                                  *)
C8_StatusOfErrorKind ==
    Answered =>
        /\ failed \in {"file_type", "prompt"} => response.status = 400
        /\ failed = "size" => response.status = 413
        /\ failed \in {"storage", "ocr", "ai"} => response.status = 500

(* C8 as amended: 400 for a validation failure and for an oversize         *)
(* document; 500 for an OCR or AI failure and for a storage failure,       *)
(* except that a storage failure raised as FileNotFoundError gets 400.     *)
C8_StatusOfErrorKindAmended ==
    Answered =>
        /\ failed \in {"file_type", "prompt", "size"} => response.status = 400
        /\ failed \in {"ocr", "ai"} => response.status = 500
        /\ failed = "storage" =>
              response.status = (IF raised.type = "FileNotFoundError" THEN 400 ELSE 500)

C8_Witness ==
    /\ Answered
    /\ failed = "size"
    /\ size > MAX_FILE_SIZE
    /\ response.status = 400

(* C9: the AI adapter is invoked only after the OCR adapter has returned   *)
(* successfully for the request; when OCR fails the request ends failed    *)
(* and the AI adapter is never invoked.                                    *)
C9_AiOnlyAfterOcrSuccess ==
    /\ ai_calls # <<>> => (OcrReturned /\ ocr_calls # <<>>)
    /\ (ocr_calls # <<>> /\ ~OcrReturned) =>
          (Answered /\ failed = "ocr" /\ response.status # 200 /\ ai_calls = <<>>)

C9_Witness ==
    /\ Answered
    /\ endpoint = "extract"
    /\ failed = "ocr"
    /\ ocr_calls # <<>>

(* C10: a failed request is reported with the kind of the stage that       *)
(* failed: a write failure as a storage failure, an OCR engine exception   *)
(* as an OCR failure, an AI service exception as an AI failure, whatever   *)
(* the text of the underlying error.                                       *)
ReportedKind(detail) ==
    CASE detail.text \in {"AI model not available. Please contact support.",
                          "AI service authentication failed. Check API configuration.",
                          "Invalid request to AI service. Check your prompt and try again.",
                          "AI processing timed out. Try with a shorter document or simpler prompt."}
            -> "ai"
      [] detail.text \in {"OCR processing failed. The PDF may be corrupted or unsupported.",
                          "OCR processing failed: {error_message}"}
            -> "ocr"
      [] detail.text = "Uploaded file could not be processed" -> "storage"
      [] detail.text = "Processing failed: {error_message}" ->
            (CASE detail.arg.prefix = "OCR processing failed: " -> "ocr"
               [] detail.arg.prefix = "AI extraction failed: " -> "ai"
               [] OTHER -> "unclassified")
      [] OTHER -> "unclassified"

C10_ReportedKindIsFailedStage ==
    (Answered /\ failed \in {"storage", "ocr", "ai"}) =>
        ReportedKind(response.body.detail) = failed

(* C11: cleanup_temp_file never raises; on a missing or already deleted    *)
(* file it removes nothing; a second call in a row removes nothing more,   *)
(* also when the file disappears between the existence test and the delete.*)
C11_CleanupNeverRaisesIdempotent ==
    /\ ~escaped
    /\ \A i \in 1..Len(cleanups) :
          /\ cleanups[i].removed \subseteq {file_path}
          /\ ~cleanups[i].present => cleanups[i].removed = {}
          /\ i > 1 => cleanups[i].removed = {}
    /\ (cl_pc = "returned" /\ file_path \notin undeletable) => file_path \notin disk

C11_Witness ==
    /\ cl_pc = "returned"
    /\ Len(cleanups) = 2
    /\ cleanups[1].present
    /\ cleanups[1].caught = "FileNotFoundError"
    /\ cleanups[2].removed = {}

(* C12: under any interleaving, the requests that hold a transient file   *)
(* hold it at pairwise distinct locations, each location holding the file  *)
(* of the request that created it, and an os.unlink of a request removes   *)
(* only that request's own file.                                           *)
Holding == {"read", "recognize", "extract", "finish"}

C12_DistinctLocationsOwnCleanup ==
    /\ \A r1, r2 \in Requests :
          (r1 # r2 /\ c_pc[r1] \in Holding /\ c_pc[r2] \in Holding) =>
              c_path[r1] # c_path[r2]
    /\ \A r \in Requests : c_pc[r] \in Holding => owner[c_path[r]] = r
    /\ \A d \in deleted : d.by = d.whose

C12_Witness ==
    /\ c_pc[1] = "done"
    /\ [by |-> 1, whose |-> 1] \in deleted
    /\ c_pc[2] \in Holding
    /\ c_path[2] = c_path[1]
    /\ \E n \in Names : owner[n] = Earlier

(* C13: an /ocr-detailed request whose document the engine gives no layout *)
(* for still succeeds, with the recognized text and empty bounding-box and *)
(* confidence collections: past validation and materialization, only an    *)
(* OCR engine failure ends such a request failed.                          *)
C13_LayoutFallbackSucceeds ==
    (/\ Answered
     /\ endpoint = "ocr-detailed"
     /\ failed \notin {"auth", "file_type", "size", "storage", "ocr"}) =>
        /\ Succeeded
        /\ {"text", "bounding_boxes", "confidence_scores"} \subseteq Keys(response.body)

(* C14: within one request the OCR adapter and the AI adapter are each     *)
(* invoked at most once; a failure of either ends the request, it is not   *)
(* followed by a second invocation.                                        *)
C14_SingleAttempt ==
    /\ Len(ocr_calls) <= 1
    /\ Len(ai_calls) <= 1
    /\ failed \in {"ocr", "ai"} => Answered

C14_Witness ==
    /\ Answered
    /\ failed = "ai"
    /\ Len(ocr_calls) = 1
    /\ Len(ai_calls) = 1
    /\ ai_calls[1].returned = <<>>

(* C15: an AI-stage failure is sub-classified by its message: the          *)
(* model-unavailable, authentication, invalid-request and timeout          *)
(* signatures each yield their own message, and a message with none of     *)
(* these signatures yields the generic message carrying the original text. *)
ModelSignature(e) == Has(e, "404") /\ Has(e, "model")
AuthSignature(e) == Has(e, "401") \/ Has(e, "authentication")
InvalidSignature(e) == Has(e, "400") \/ Has(e, "invalid")
TimeoutSignature(e) == Has(e, "timeout")

AiDetails(e) ==
    {d \in {"AI model not available. Please contact support."} : ModelSignature(e)}
    \cup {d \in {"AI service authentication failed. Check API configuration."} :
             AuthSignature(e)}
    \cup {d \in {"Invalid request to AI service. Check your prompt and try again."} :
             InvalidSignature(e)}
    \cup {d \in {"AI processing timed out. Try with a shorter document or simpler prompt."} :
             TimeoutSignature(e)}

C15_AiFailureSubclassified ==
    (Answered /\ failed = "ai") =>
        IF AiDetails(raised) # {}
        THEN response.body.detail.text \in AiDetails(raised)
        ELSE /\ response.body.detail.text = "Processing failed: {error_message}"
             /\ response.body.detail.arg = raised.msg

(* C16: in a successful OCR outcome, text_length is the number of          *)
(* characters of the recognized text of that outcome.                      *)
C16_TextLengthIsLengthOfText ==
    (Succeeded /\ endpoint = "ocr") =>
        response.body.text_length = Len(response.body.text.text)

(* C17: the AI adapter is invoked with the caller's instruction followed   *)
(* by the text OCR recognized for the request, that text itself, between   *)
(* the begin-document and end-document markers.                            *)
FormatStr(str) == [str |-> str]

C17_AiGetsRecognizedText ==
    \A i \in 1..Len(ai_calls) :
        /\ Len(ai_calls[i].request) = 4
        /\ ai_calls[i].request[1] = prompt
        /\ ai_calls[i].request[2] = "\n\n--- Begin Document ---\n"
        /\ ai_calls[i].request[3] = FormatStr(text.text)
        /\ ai_calls[i].request[4] = "\n--- End Document ---"

(* C18: a request gets past verify_api_key only with the Authorization     *)
(* header 'Bearer ' followed by the configured key; any other header ends  *)
(* with 401, no transient file created and no adapter invoked.             *)
C18_OnlyBearerKeyPasses ==
    (pc \notin {"idle", "verify_api_key"} /\ authorization # <<Bearer, API_KEY>>) =>
        /\ Answered
        /\ failed = "auth"
        /\ response.status = 401
        /\ created = {}
        /\ ocr_calls = <<>>
        /\ ai_calls = <<>>

(* C19: a session id is accepted by verify_admin_session only if a login  *)
(* with the admin password issued it and no logout has ended it since; a   *)
(* login with a wrong password adds no session; a logged-out id gets 401.  *)
C19_SessionsIssuedAndLive ==
    /\ admin_sessions \subseteq issued \ logged_out
    /\ (admin_response.route = "page" /\ admin_response.status = 200) =>
          admin_response.cookie \in issued \ logged_out
    /\ (admin_response.route = "page" /\ admin_response.cookie \in logged_out) =>
          admin_response.status = 401
    /\ (admin_response.route = "login" /\ admin_response.status # 302) =>
          admin_response.cookie = NoCookie

C19_Witness ==
    /\ admin_response.route = "page"
    /\ admin_response.status = 401
    /\ admin_response.cookie \in logged_out
    /\ admin_sessions # {}

====
